---- MODULE Spec2Model ----
(***************************************************************************)
(* Shopping cart: the persistent cart state manager (cart.js), the data    *)
(* models (CartItem), the input validator, the data-recovery engine and    *)
(* the backup rotation, modelled as a state machine over the browser's     *)
(* key-value store.                                                        *)
(*                                                                         *)
(* The scripts are modelled as the application loads them: the validation  *)
(* script defines inputValidator, dataRecovery and gracefulDegradation     *)
(* together, before the cart, so the "typeof ... !== 'undefined'" probes   *)
(* of cart.js are true, errorHandler and productsModule are defined, and   *)
(* localStorage passed the start-up feature test                           *)
(* (gracefulDegradation.isSupported('localStorage')).  Storage calls may   *)
(* still throw later: every operation takes a failure mode of the store.   *)
(***************************************************************************)
EXTENDS Integers, Sequences, FiniteSets, TLC

(***************************************************************************)
(* Bounds of the model.                                                    *)
(***************************************************************************)
CatalogSize == 2        \* the first CatalogSize products of SAMPLE_PRODUCTS
MaxOps == 2             \* operations per run of the cart manager
MaxClock == 1           \* the clock advances at most this far
MaxBlobItems == 2       \* items of a stored blob in a recovery run
MaxBackupCalls == 7     \* createBackup calls per run of the backup rotator
MaxLoadRetries == 2     \* retries of a load that are followed
MaxRestorable == 2      \* backups in the store of a load with several
MaxListeners == 2       \* listeners that may be registered
MaxBackupClock == 7     \* clock range of the backup rotator runs
MaxModules == 3         \* modules of a generated dependency Map
MaxCalls == 2           \* initialize() calls made on the application

(***************************************************************************)
(* Program constants.                                                      *)
(***************************************************************************)
MaxQuantity == 999      \* validationRules 'quantity'.max
MinQuantity == 0        \* validationRules 'quantity'.min
MinProductId == 1       \* validationRules 'productId'.min
MaxBackups == 5         \* cleanupOldBackups keeps the 5 most recent

(***************************************************************************)
(* JavaScript values.  Every value is a record of the same shape, so that  *)
(* values of different types can be compared:                              *)
(*   t    "undef" | "null" | "num" | "str" | "arr" | "obj"                 *)
(*   n,f  a number is n + fraction, n its floor, f whether the fraction is *)
(*        non-zero (all the code does with numbers is compare them with    *)
(*        integers, floor them, take absolute values and add integers)     *)
(*   s    the characters of a string (for an ISO timestamp <<"iso">>, and  *)
(*        n the instant)                                                   *)
(*   key  the property name under which the value sits in its object       *)
(*   a    the elements of an array / the members of an object, in order    *)
(***************************************************************************)
Undef == [t |-> "undef", n |-> 0, f |-> FALSE, s |-> <<>>, key |-> "", a |-> <<>>]
Null == [Undef EXCEPT !.t = "null"]
Num(n, f) == [Undef EXCEPT !.t = "num", !.n = n, !.f = f]
IntV(n) == Num(n, FALSE)
Str(s) == [Undef EXCEPT !.t = "str", !.s = s]
Iso(k) == [Undef EXCEPT !.t = "str", !.s = <<"iso">>, !.n = k]
Arr(a) == [Undef EXCEPT !.t = "arr", !.a = a]
Obj(a) == [Undef EXCEPT !.t = "obj", !.a = a]
Prop(k, v) == [v EXCEPT !.key = k]

\* obj[k]: the member named k, undefined when there is none (or obj is no object)
Get(obj, k) ==
    IF obj.t = "obj" /\ \E i \in 1..Len(obj.a) : obj.a[i].key = k
    THEN Prop("", obj.a[CHOOSE i \in 1..Len(obj.a) : obj.a[i].key = k])
    ELSE Undef

\* JavaScript truthiness: undefined, null, 0, NaN and '' are falsy
Truthy(v) ==
    CASE v.t \in {"undef", "null"} -> FALSE
      [] v.t = "num" -> ~(v.n = 0 /\ ~v.f)
      [] v.t = "str" -> v.s # <<>>
      [] OTHER -> TRUE

IsNumber(v) == v.t = "num"                  \* typeof v === 'number'
IsInteger(v) == v.t = "num" /\ ~v.f         \* Number.isInteger(v)
Less(v, k) == v.n < k                       \* v < k, k an integer
Greater(v, k) == v.n > k \/ (v.n = k /\ v.f) \* v > k, k an integer
Floor(v) == IntV(v.n)                       \* Math.floor(v)
Abs(v) ==                                   \* Math.abs(v)
    IF v.n >= 0 THEN v
    ELSE IF v.f THEN Num(0 - v.n - 1, TRUE) ELSE IntV(0 - v.n)

(***************************************************************************)
(* Texts passed as arguments: sequences of characters.  "x" stands for any *)
(* character other than a digit, '.' and '-'.                              *)
(***************************************************************************)
Digits == <<"0", "1", "2", "3", "4", "5", "6", "7", "8", "9">>
IsDigit(c) == \E i \in 1..Len(Digits) : Digits[i] = c
DigitValue(c) == (CHOOSE i \in 1..Len(Digits) : Digits[i] = c) - 1

RECURSIVE DigitRun(_, _)
\* the number of digits of cs from position i on
DigitRun(cs, i) ==
    IF i <= Len(cs) /\ IsDigit(cs[i]) THEN 1 + DigitRun(cs, i + 1) ELSE 0

RECURSIVE DigitsValue(_)
DigitsValue(cs) ==
    IF cs = <<>> THEN 0
    ELSE 10 * DigitsValue(SubSeq(cs, 1, Len(cs) - 1)) + DigitValue(cs[Len(cs)])

\* the number read from nInt digits, and nFrac more after a '.', of body;
\* null stands for NaN (the sanitizer maps NaN to null at once)
DigitsNumber(body, nInt, nFrac) ==
    IF nInt + nFrac = 0 THEN Null
    ELSE Num(DigitsValue(SubSeq(body, 1, nInt)),
             \E i \in (nInt + 2)..(nInt + 1 + nFrac) : body[i] # "0")

FractionRun(body, nInt) ==
    IF Len(body) > nInt /\ body[nInt + 1] = "." THEN DigitRun(body, nInt + 2) ELSE 0

UnsignedNumber(body, nInt) == DigitsNumber(body, nInt, FractionRun(body, nInt))

Negated(v) ==
    IF v.t = "null" THEN Null
    ELSE IF v.f THEN Num(0 - v.n - 1, TRUE)
    ELSE IntV(0 - v.n)

\* parseFloat of a text of digits, '.' and '-': the longest numeric prefix
parseFloat(cs) ==
    IF Len(cs) > 0 /\ cs[1] = "-"
    THEN Negated(UnsignedNumber(Tail(cs), DigitRun(Tail(cs), 1)))
    ELSE UnsignedNumber(cs, DigitRun(cs, 1))

(***************************************************************************)
(* InputValidator: sanitizers and rules.                                   *)
(***************************************************************************)
\* sanitizers 'number'
numberSanitizer(value) ==
    IF value.t \in {"null", "undef"} \/ (value.t = "str" /\ value.s = <<>>)
    THEN Null
    ELSE IF value.t = "num" THEN value
    ELSE IF value.t = "str"
         THEN parseFloat(SelectSeq(value.s, LAMBDA c : IsDigit(c) \/ c \in {".", "-"}))
    ELSE Null

\* sanitizers 'integer': Math.floor of the number sanitizer's result
FloorUnlessNull(numberValue) ==
    IF numberValue.t = "null" THEN Null ELSE Floor(numberValue)
integerSanitizer(value) == FloorUnlessNull(numberSanitizer(value))

\* the catalog: SAMPLE_PRODUCTS, cut to its first CatalogSize products
CatalogIds == 1..CatalogSize

\* productsModule.getProductById(id) !== null, for a number id
productExists(id) == IsInteger(id) /\ id.n \in CatalogIds

\* validationRules, with the custom rules of validateQuantity merged in
Rules(ruleType) ==
    IF ruleType = "quantity"
    THEN [hasMin |-> TRUE, min |-> MinQuantity, hasMax |-> TRUE, max |-> MaxQuantity]
    ELSE [hasMin |-> TRUE, min |-> MinProductId, hasMax |-> FALSE, max |-> 0]

\* the rule's custom check
Custom(ruleType, v) ==
    IF ruleType = "quantity"
    THEN (v.n = 0 /\ ~v.f) \/ Greater(v, 0)
    ELSE productExists(v)

\* the result object of validate
ValidationResult(errors, sanitizedValue) ==
    [isValid |-> errors = <<>>, errors |-> errors, sanitizedValue |-> sanitizedValue]

\* validate from the required check on, over the sanitized value
ValidateSanitized(sanitizedValue, ruleType, rules) ==
    IF sanitizedValue.t = "null"
    THEN ValidationResult(<<"required">>, sanitizedValue)
    ELSE ValidationResult(
            (IF rules.hasMin /\ Less(sanitizedValue, rules.min) THEN <<"min">> ELSE <<>>)
            \o (IF rules.hasMax /\ Greater(sanitizedValue, rules.max) THEN <<"max">> ELSE <<>>)
            \o (IF ~IsInteger(sanitizedValue) THEN <<"integer">> ELSE <<>>)
            \o (IF ~Custom(ruleType, sanitizedValue) THEN <<"custom">> ELSE <<>>),
            sanitizedValue)

\* InputValidator.validate(value, ruleType) for the rule kinds 'quantity' and
\* 'productId' (both required, of type number, integer)
validate(value, ruleType) ==
    ValidateSanitized(integerSanitizer(value), ruleType, Rules(ruleType))

validateQuantity(quantity) == validate(quantity, "quantity")
validateProductId(productId) == validate(productId, "productId")

(***************************************************************************)
(* Stored texts.  A text in the store is a sequence of JSON tokens:        *)
(*   k  "{" "}" "[" "]" "," ":" "null" "num" "str", "id" for a bare        *)
(*      identifier (an unquoted key) and "junk" for a token cut short      *)
(*   n, f, s  the number or the string of a "num", "str" or "id" token     *)
(***************************************************************************)
Tok(k) == [k |-> k, n |-> 0, f |-> FALSE, s |-> <<>>]
NumTok(v) == [k |-> "num", n |-> v.n, f |-> v.f, s |-> <<>>]
StrTok(v) == [k |-> "str", n |-> v.n, f |-> FALSE, s |-> v.s]
KeyTok(name) == [k |-> "str", n |-> 0, f |-> FALSE, s |-> <<name>>]
BareKeyTok(name) == [k |-> "id", n |-> 0, f |-> FALSE, s |-> <<name>>]
KeyName(tok) == IF tok.s = <<>> THEN "" ELSE tok.s[1]

RECURSIVE Stringify(_)
RECURSIVE StringifyElems(_, _)
RECURSIVE StringifyMembers(_, _)

\* JSON.stringify(v): the text of a value
Stringify(v) ==
    CASE v.t = "num" -> <<NumTok(v)>>
      [] v.t = "str" -> <<StrTok(v)>>
      [] v.t = "arr" -> <<Tok("[")>> \o StringifyElems(v.a, 1) \o <<Tok("]")>>
      [] v.t = "obj" -> <<Tok("{")>> \o StringifyMembers(v.a, TRUE) \o <<Tok("}")>>
      [] OTHER -> <<Tok("null")>>

StringifyElems(a, i) ==
    IF i > Len(a) THEN <<>>
    ELSE (IF i > 1 THEN <<Tok(",")>> ELSE <<>>)
         \o Stringify(a[i]) \o StringifyElems(a, i + 1)

\* members holding undefined are left out
StringifyMembers(a, first) ==
    IF a = <<>> THEN <<>>
    ELSE IF a[1].t = "undef" THEN StringifyMembers(Tail(a), first)
    ELSE (IF first THEN <<>> ELSE <<Tok(",")>>)
         \o <<KeyTok(a[1].key), Tok(":")>> \o Stringify(a[1])
         \o StringifyMembers(Tail(a), FALSE)

\* obj[k] = v while parsing: a repeated key keeps its place and takes the
\* later value
SetMember(a, v) ==
    IF \E i \in 1..Len(a) : a[i].key = v.key
    THEN [i \in 1..Len(a) |-> IF a[i].key = v.key THEN v ELSE a[i]]
    ELSE Append(a, v)

ParseFail == [ok |-> FALSE, v |-> Undef, i |-> 0]
KindAt(toks, i) == IF i >= 1 /\ i <= Len(toks) THEN toks[i].k ELSE "eof"

RECURSIVE ParseValue(_, _)
RECURSIVE ParseElems(_, _, _)
RECURSIVE ParseMembers(_, _, _)

\* one JSON value starting at token i: [ok, v, i] with i the next position
ParseValue(toks, i) ==
    LET k == KindAt(toks, i)
    IN  CASE k = "num" -> [ok |-> TRUE, v |-> Num(toks[i].n, toks[i].f), i |-> i + 1]
          [] k = "str" -> [ok |-> TRUE, v |-> [Str(toks[i].s) EXCEPT !.n = toks[i].n], i |-> i + 1]
          [] k = "null" -> [ok |-> TRUE, v |-> Null, i |-> i + 1]
          [] k = "[" -> IF KindAt(toks, i + 1) = "]"
                        THEN [ok |-> TRUE, v |-> Arr(<<>>), i |-> i + 2]
                        ELSE ParseElems(toks, i + 1, <<>>)
          [] k = "{" -> IF KindAt(toks, i + 1) = "}"
                        THEN [ok |-> TRUE, v |-> Obj(<<>>), i |-> i + 2]
                        ELSE ParseMembers(toks, i + 1, <<>>)
          [] OTHER -> ParseFail

ParseElems(toks, i, acc) ==
    LET r == ParseValue(toks, i)
    IN  IF ~r.ok THEN ParseFail
        ELSE IF KindAt(toks, r.i) = "," THEN ParseElems(toks, r.i + 1, Append(acc, r.v))
        ELSE IF KindAt(toks, r.i) = "]"
             THEN [ok |-> TRUE, v |-> Arr(Append(acc, r.v)), i |-> r.i + 1]
        ELSE ParseFail

ParseMembers(toks, i, acc) ==
    IF KindAt(toks, i) # "str" \/ KindAt(toks, i + 1) # ":" THEN ParseFail
    ELSE LET r == ParseValue(toks, i + 2)
             m == SetMember(acc, Prop(KeyName(toks[i]), r.v))
         IN  IF ~r.ok THEN ParseFail
             ELSE IF KindAt(toks, r.i) = "," THEN ParseMembers(toks, r.i + 1, m)
             ELSE IF KindAt(toks, r.i) = "}"
                  THEN [ok |-> TRUE, v |-> Obj(m), i |-> r.i + 1]
             ELSE ParseFail

\* JSON.parse(text): [ok, v]; ~ok is the SyntaxError
JSONParse(toks) ==
    LET r == ParseValue(toks, 1)
    IN  IF r.ok /\ r.i = Len(toks) + 1 THEN [ok |-> TRUE, v |-> r.v]
        ELSE [ok |-> FALSE, v |-> Undef]

Count(toks, k) == Cardinality({i \in 1..Len(toks) : toks[i].k = k})
Repeat(tok, n) == [i \in 1..n |-> tok]
Missing(opened, closed) == IF opened > closed THEN opened - closed ELSE 0

\* replace(/,(\s*[}\]])/g, '$1'): a comma right before a closer goes
RemoveTrailingCommas(toks) ==
    LET keep == {i \in 1..Len(toks) :
                    ~(toks[i].k = "," /\ KindAt(toks, i + 1) \in {"}", "]"})}
        F[i \in 0..Len(toks)] ==
            IF i = 0 THEN <<>>
            ELSE IF i \in keep THEN Append(F[i - 1], toks[i]) ELSE F[i - 1]
    IN  F[Len(toks)]

\* replace(/([{,]\s*)([a-zA-Z_$][a-zA-Z0-9_$]*)\s*:/g, '$1"$2":'): a bare
\* identifier between '{' or ',' and ':' is quoted
QuoteBareKeys(toks) ==
    [i \in 1..Len(toks) |->
        IF toks[i].k = "id" /\ KindAt(toks, i - 1) \in {"{", ","}
           /\ KindAt(toks, i + 1) = ":"
        THEN [toks[i] EXCEPT !.k = "str"]
        ELSE toks[i]]

\* DataRecovery.repairMalformedJson(jsonString): [ok, text], ~ok for null
repairMalformedJson(jsonString) ==
    LET closed == jsonString
                  \o Repeat(Tok("]"), Missing(Count(jsonString, "["), Count(jsonString, "]")))
                  \o Repeat(Tok("}"), Missing(Count(jsonString, "{"), Count(jsonString, "}")))
        repaired == QuoteBareKeys(RemoveTrailingCommas(closed))
    IN  IF JSONParse(repaired).ok THEN [ok |-> TRUE, text |-> repaired]
        ELSE [ok |-> FALSE, text |-> <<>>]

(***************************************************************************)
(* The state the operations work on, as one record:                        *)
(*   items        CartModule.items, the Map in insertion order             *)
(*   sessionOnly  CartModule.sessionOnly                                   *)
(*   primary      localStorage['shopping-cart-items']: [present, text]     *)
(*   savedAt      localStorage['shopping-cart-timestamp']                  *)
(*   backups      localStorage['shopping-cart-items_backup_<millis>'],     *)
(*                a function from the millis to the stored text            *)
(*   now          the clock read by Date.now() and new Date()              *)
(*   listeners    CartModule.listeners: [id, throws] in insertion order    *)
(*   events       the _notifyListeners calls of the running operation      *)
(*   calls        its calls of listeners                                   *)
(*   writes       its setItem / removeItem calls that took effect          *)
(*   reports      its calls of errorHandler.handleStorageError             *)
(*   outcome      "ok", or "error" when the operation throws; error names  *)
(*                the message                                              *)
(*                                                                         *)
(* A failure mode of the store says which calls throw during an operation: *)
(*   get, setBackup, setItems, setTimestamp, remove   and the error kind   *)
(*   "quota" (QuotaExceededError), "security" (SecurityError) or "other".  *)
(***************************************************************************)
NoText == [present |-> FALSE, text |-> <<>>]
Text(toks) == [present |-> TRUE, text |-> toks]

NoFailure ==
    [get |-> FALSE, setBackup |-> FALSE, setItems |-> FALSE, setTimestamp |-> FALSE,
     remove |-> FALSE, kind |-> "none"]
FailModes ==
    { NoFailure,
      [NoFailure EXCEPT !.setBackup = TRUE, !.setItems = TRUE, !.setTimestamp = TRUE,
                        !.kind = "quota"],
      [NoFailure EXCEPT !.setTimestamp = TRUE, !.kind = "other"],
      [get |-> TRUE, setBackup |-> TRUE, setItems |-> TRUE, setTimestamp |-> TRUE,
       remove |-> TRUE, kind |-> "security"] }

Event(name, productId, quantity) ==
    [event |-> name, productId |-> productId, quantity |-> quantity]
Write(op, key, n) == [op |-> op, key |-> key, n |-> n]

\* one call listener(event, data, this): what the listener is told, the
\* stored cart it would read during the call, and whether it throws
Call(listener, event, S) ==
    [listener |-> listener.id, event |-> event.event, seen |-> S.primary,
     threw |-> listener.throws]

\* the mutant: no try around the call, so the first listener that throws ends
\* the loop and its exception leaves _notifyListeners
notifyListenersNoCatch(S, event) ==
    LET throwing == {i \in 1..Len(S.listeners) : S.listeners[i].throws}
        stop == IF throwing = {} THEN Len(S.listeners)
                ELSE CHOOSE i \in throwing : \A j \in throwing : i <= j
    IN  [S EXCEPT !.events = Append(@, event),
                  !.calls = @ \o [i \in 1..stop |-> Call(S.listeners[i], event, S)],
                  !.outcome = IF throwing = {} THEN @ ELSE "error",
                  !.error = IF throwing = {} THEN @ ELSE "listener"]

\* the mutant: in session-only mode nobody is notified
notifyListenersNormalOnly(S, event) ==
    IF S.sessionOnly THEN S
    ELSE [S EXCEPT !.events = Append(@, event),
                   !.calls = @ \o [i \in 1..Len(S.listeners) |->
                                      Call(S.listeners[i], event, S)]]

\* CartModule._notifyListeners(event, data): every listener is called, in
\* the order of registration, and what a listener throws is caught
notifyListeners(S, event) ==
    [S EXCEPT !.events = Append(@, event),
              !.calls = @ \o [i \in 1..Len(S.listeners) |-> Call(S.listeners[i], event, S)]]

Throw(S, message) == [S EXCEPT !.outcome = "error", !.error = message]

\* Map operations on items: the map is the sequence of its entries in the
\* order of insertion, each entry the key with the fields of its CartItem
Has(items, key) == \E i \in 1..Len(items) : items[i].key = key
IndexOf(items, key) == CHOOSE i \in 1..Len(items) : items[i].key = key
Delete(items, key) == SelectSeq(items, LAMBDA it : it.key # key)
SetItem(items, key, cartItem) ==
    LET entry == [key |-> key, productId |-> cartItem.productId,
                  quantity |-> cartItem.quantity, addedAt |-> cartItem.addedAt]
    IN  IF Has(items, key) THEN [items EXCEPT ![IndexOf(items, key)] = entry]
        ELSE Append(items, entry)
QuantityOf(items, key) ==
    IF Has(items, key) THEN items[IndexOf(items, key)].quantity ELSE 0

\* new CartItem(productId, quantity) as a record; addedAt is a value
CartItem(productId, quantity, addedAt) ==
    [productId |-> productId, quantity |-> quantity, addedAt |-> addedAt]

\* CartItem.validate() does not throw, for a productId and a quantity value
CartItemValid(productId, quantity) ==
    /\ Truthy(productId) /\ IsNumber(productId)
    /\ IsNumber(quantity) /\ ~Less(quantity, 0) /\ IsInteger(quantity)

\* DataRecovery.cleanupOldBackups(originalKey): all but the MaxBackups backups
\* with the greatest millis are removed; a store that throws stops it
cleanupOldBackups(S, env) ==
    IF env.get \/ env.remove THEN S
    ELSE LET keys == DOMAIN S.backups
             old == {k \in keys : Cardinality({j \in keys : j > k}) >= MaxBackups}
             F[i \in 0..Cardinality(old)] ==
                 IF i = 0 THEN <<>>
                 ELSE LET k == CHOOSE k \in old :
                                   Cardinality({j \in old : j > k}) = i - 1
                      IN  Append(F[i - 1], Write("remove", "backup", k))
         IN  [S EXCEPT !.backups = [k \in keys \ old |-> S.backups[k]],
                       !.writes = @ \o F[Cardinality(old)]]

\* the backup record written under <key>_backup_<millis>
BackupRecord(data, at) ==
    Obj(<<Prop("originalKey", Str(<<"shopping-cart-items">>)), Prop("data", data),
          Prop("timestamp", Iso(at)), Prop("version", Str(<<"1.0">>))>>)

\* DataRecovery.createBackup(key, data): never throws
createBackup(S, data, env) ==
    IF env.setBackup THEN S
    ELSE cleanupOldBackups(
             [S EXCEPT !.backups =
                           [k \in DOMAIN S.backups \cup {S.now} |->
                               IF k = S.now THEN Stringify(BackupRecord(data, S.now))
                               ELSE S.backups[k]],
                       !.writes = Append(@, Write("set", "backup", S.now))],
             env)

\* CartModule._handleStorageError(error): every branch sets sessionOnly
handleStorageError(S, kind) ==
    notifyListeners([S EXCEPT !.sessionOnly = TRUE],
        Event(CASE kind = "quota" -> "storageQuotaExceeded"
                [] kind = "security" -> "storageAccessDenied"
                [] OTHER -> "storageError", 0, 0))

\* the blob saveToStorage serializes
CartData(S) ==
    Obj(<<Prop("items",
               Arr([i \in 1..Len(S.items) |->
                       Obj(<<Prop("productId", IntV(S.items[i].key)),
                             Prop("quantity", IntV(S.items[i].quantity)),
                             Prop("addedAt", S.items[i].addedAt)>>)])),
          Prop("timestamp", Iso(S.now))>>)

\* the catch block of saveToStorage
SaveFailed(S, env) ==
    [handleStorageError(S, env.kind) EXCEPT !.reports = Append(@, "cart-save")]

\* the try block of saveToStorage: the backup of the stored value, then the
\* two writes; the first call that throws ends it in the catch block
SaveAttempt(S, env) ==
    IF env.get THEN SaveFailed(S, env)
    ELSE LET existing == JSONParse(S.primary.text)
             B == IF S.primary.present /\ S.primary.text # <<>> /\ existing.ok
                  THEN createBackup(S, existing.v, env)
                  ELSE S
             W1 == [B EXCEPT !.primary = Text(Stringify(CartData(S))),
                             !.writes = Append(@, Write("set", "items", 0))]
             W2 == [W1 EXCEPT !.savedAt = Text(<<StrTok(Iso(S.now))>>),
                              !.writes = Append(@, Write("set", "timestamp", 0))]
         IN  IF env.setItems THEN SaveFailed(B, env)
             ELSE IF env.setTimestamp THEN SaveFailed(W1, env)
             ELSE W2

\* the mutant: the catch block of saveToStorage throws the error on
saveToStorageRethrows(S, env) ==
    IF S.sessionOnly THEN S
    ELSE IF env.get \/ env.setItems \/ env.setTimestamp
    THEN Throw(SaveAttempt(S, env), "Failed to save cart")
    ELSE SaveAttempt(S, env)

\* the mutant: session-only mode does not stop the save
saveToStorageNoGuard(S, env) == SaveAttempt(S, env)

\* CartModule.saveToStorage(): never throws
saveToStorage(S, env) ==
    IF S.sessionOnly THEN S ELSE SaveAttempt(S, env)

(***************************************************************************)
(* DataRecovery: the 'cart' recovery strategy and recoverData.             *)
(***************************************************************************)
IsObject(v) == v.t \in {"obj", "arr"}       \* v && typeof v === 'object'

\* recoveryStrategies 'cart' validate
cartValidate(data) ==
    /\ IsObject(data)
    /\ Get(data, "items").t = "arr"
    /\ \A i \in 1..Len(Get(data, "items").a) :
          LET item == Get(data, "items").a[i]
          IN  /\ Truthy(item)
              /\ IsNumber(Get(item, "productId"))
              /\ IsNumber(Get(item, "quantity"))
              /\ ~Less(Get(item, "quantity"), 0)

\* recoveryStrategies 'cart' fallback
cartFallback(now) == Obj(<<Prop("items", Arr(<<>>)), Prop("timestamp", Iso(now))>>)

\* the filter of the repair function
RepairKeeps(item) ==
    /\ Truthy(item)
    /\ IsNumber(Get(item, "productId")) /\ Greater(Get(item, "productId"), 0)
    /\ IsNumber(Get(item, "quantity")) /\ Greater(Get(item, "quantity"), 0)

\* the map of the repair function
RepairItem(item, now) ==
    Obj(<<Prop("productId", Floor(Abs(Get(item, "productId")))),
          Prop("quantity", Floor(Abs(Get(item, "quantity")))),
          Prop("addedAt", IF Truthy(Get(item, "addedAt")) THEN Get(item, "addedAt")
                          ELSE Iso(now))>>)

\* recoveryStrategies 'cart' repair
cartRepair(data, now) ==
    IF ~IsObject(data) THEN cartFallback(now)
    ELSE Obj(<<Prop("items",
                    IF Get(data, "items").t = "arr"
                    THEN LET kept == SelectSeq(Get(data, "items").a, RepairKeeps)
                         IN  Arr([i \in 1..Len(kept) |-> RepairItem(kept[i], now)])
                    ELSE Arr(<<>>)),
               Prop("timestamp", IF Truthy(Get(data, "timestamp"))
                                 THEN Get(data, "timestamp") ELSE Iso(now))>>)

Recovered(data, strategy, errors) ==
    [success |-> TRUE, data |-> data, strategy |-> strategy, errors |-> errors]

\* the part of recoverData after the text has been parsed: the strategy set
\* by the JSON repair is overwritten by the validation's
RecoverParsed(parsedData, errors, now) ==
    IF cartValidate(parsedData)
    THEN Recovered(parsedData, "validation-passed", errors)
    ELSE Recovered(cartRepair(parsedData, now), "data-repair", errors)

\* the mutant: a thrown read escapes recoverData, which then has no result
recoverDataNoCatch(S, env) ==
    IF env.get
    THEN [success |-> FALSE, data |-> Null, strategy |-> "none", errors |-> <<>>]
    ELSE LET parsed == JSONParse(S.primary.text)
         IN  IF ~S.primary.present \/ S.primary.text = <<>>
             THEN Recovered(cartFallback(S.now), "fallback", <<>>)
             ELSE IF parsed.ok THEN RecoverParsed(parsed.v, <<>>, S.now)
             ELSE Recovered(cartFallback(S.now), "fallback", <<"JSON parse error">>)

\* the mutant: data that fails the validation is not repaired, and
\* recoverData reports no success
recoverDataNoRepair(S, env) ==
    IF env.get
    THEN Recovered(cartFallback(S.now), "fallback", <<"Recovery error">>)
    ELSE IF ~S.primary.present \/ S.primary.text = <<>>
    THEN Recovered(cartFallback(S.now), "fallback", <<>>)
    ELSE LET parsed == JSONParse(S.primary.text)
             repairedJson == repairMalformedJson(S.primary.text)
             data == IF parsed.ok THEN parsed.v ELSE JSONParse(repairedJson.text).v
         IN  IF ~parsed.ok /\ ~repairedJson.ok
             THEN Recovered(cartFallback(S.now), "fallback", <<"JSON parse error">>)
             ELSE IF cartValidate(data) THEN Recovered(data, "validation-passed", <<>>)
             ELSE [success |-> FALSE, data |-> Null, strategy |-> "none", errors |-> <<>>]

\* the mutant: with nothing under the key recoverData reports no success
recoverDataMissingFails(S, env) ==
    IF env.get
    THEN Recovered(cartFallback(S.now), "fallback", <<"Recovery error">>)
    ELSE IF ~S.primary.present \/ S.primary.text = <<>>
    THEN [success |-> FALSE, data |-> Null, strategy |-> "none", errors |-> <<>>]
    ELSE LET parsed == JSONParse(S.primary.text)
             repairedJson == repairMalformedJson(S.primary.text)
         IN  IF parsed.ok THEN RecoverParsed(parsed.v, <<>>, S.now)
             ELSE IF repairedJson.ok
             THEN RecoverParsed(JSONParse(repairedJson.text).v,
                                <<"JSON parse error">>, S.now)
             ELSE Recovered(cartFallback(S.now), "fallback", <<"JSON parse error">>)

\* DataRecovery.recoverData('shopping-cart-items', 'cart')
recoverData(S, env) ==
    IF env.get
    THEN Recovered(cartFallback(S.now), "fallback", <<"Recovery error">>)
    ELSE IF ~S.primary.present \/ S.primary.text = <<>>
    THEN Recovered(cartFallback(S.now), "fallback", <<>>)
    ELSE LET parsed == JSONParse(S.primary.text)
             repairedJson == repairMalformedJson(S.primary.text)
         IN  IF parsed.ok THEN RecoverParsed(parsed.v, <<>>, S.now)
             ELSE IF repairedJson.ok
             THEN RecoverParsed(JSONParse(repairedJson.text).v,
                                <<"JSON parse error">>, S.now)
             ELSE Recovered(cartFallback(S.now), "fallback", <<"JSON parse error">>)

(***************************************************************************)
(* CartModule: loading.                                                    *)
(***************************************************************************)
\* the mutant: a loaded item is put in the map under its place in the list
LoadItemByPlace(acc, itemData, now) ==
    LET productId == Get(itemData, "productId")
        quantity == Get(itemData, "quantity")
    IN  IF /\ validateProductId(productId).isValid
           /\ validateQuantity(quantity).isValid
           /\ IsNumber(productId) /\ productExists(productId)
           /\ CartItemValid(productId, quantity)
        THEN [acc EXCEPT !.items = SetItem(@, Len(acc.items),
                 CartItem(productId.n, quantity.n,
                          IF Truthy(Get(itemData, "addedAt"))
                          THEN Get(itemData, "addedAt") ELSE Iso(now)))]
        ELSE [acc EXCEPT !.skipped = @ + 1]

\* one turn of the loop of loadFromStorage over cartData.items: the item is
\* loaded, or skipped when a validator rejects it, its product is unknown or
\* CartItem.fromObject throws
LoadItem(acc, itemData, now) ==
    LET productId == Get(itemData, "productId")
        quantity == Get(itemData, "quantity")
    IN  IF /\ validateProductId(productId).isValid
           /\ validateQuantity(quantity).isValid
           /\ IsNumber(productId) /\ productExists(productId)
           /\ CartItemValid(productId, quantity)
        THEN [acc EXCEPT !.items = SetItem(@, productId.n,
                 CartItem(productId.n, quantity.n,
                          IF Truthy(Get(itemData, "addedAt"))
                          THEN Get(itemData, "addedAt") ELSE Iso(now)))]
        ELSE [acc EXCEPT !.skipped = @ + 1]

RECURSIVE LoadItems(_, _, _, _)
LoadItems(acc, a, i, now) ==
    IF i > Len(a) THEN acc ELSE LoadItems(LoadItem(acc, a[i], now), a, i + 1, now)

\* the mutant: the backup with the least millis is restored
restoreFromBackupOldest(S, env) ==
    LET keys == DOMAIN S.backups
        oldestBackup == CHOOSE k \in keys : \A j \in keys : k <= j
        backupData == JSONParse(S.backups[oldestBackup])
    IN  IF env.get THEN [success |-> FALSE, error |-> "storage", store |-> S]
        ELSE IF keys = {} THEN [success |-> FALSE, error |-> "No backups found", store |-> S]
        ELSE IF ~backupData.ok \/ backupData.v.t \in {"null", "undef"}
        THEN [success |-> FALSE, error |-> "backup", store |-> S]
        ELSE IF env.setItems THEN [success |-> FALSE, error |-> "storage", store |-> S]
        ELSE [success |-> TRUE, error |-> "",
              store |-> [S EXCEPT !.primary = Text(Stringify(Get(backupData.v, "data"))),
                                  !.writes = Append(@, Write("set", "items", 0))]]

\* DataRecovery.restoreFromBackup('shopping-cart-items'): the data of the
\* newest backup is written back under the key; never throws, and what was
\* thrown inside is the error of its result
restoreFromBackup(S, env) ==
    LET keys == DOMAIN S.backups
        mostRecentBackup == CHOOSE k \in keys : \A j \in keys : j <= k
        backupData == JSONParse(S.backups[mostRecentBackup])
    IN  IF env.get THEN [success |-> FALSE, error |-> "storage", store |-> S]
        ELSE IF keys = {} THEN [success |-> FALSE, error |-> "No backups found", store |-> S]
        ELSE IF ~backupData.ok \/ backupData.v.t \in {"null", "undef"}
        THEN [success |-> FALSE, error |-> "backup", store |-> S]
        ELSE IF env.setItems THEN [success |-> FALSE, error |-> "storage", store |-> S]
        ELSE [success |-> TRUE, error |-> "",
              store |-> [S EXCEPT !.primary = Text(Stringify(Get(backupData.v, "data"))),
                                  !.writes = Append(@, Write("set", "items", 0))]]

\* CartModule._clearStorageData(): never throws
clearStorageData(S, env) ==
    IF env.get \/ env.remove THEN S
    ELSE [S EXCEPT !.primary = NoText, !.savedAt = NoText,
                   !.writes = @ \o <<Write("remove", "items", 0),
                                     Write("remove", "timestamp", 0)>>]

\* the loop of the original loading method: an item that is no object or
\* whose productId or quantity is no number throws 'Invalid item data' and is
\* skipped, as null is by LoadItem; the others go the way of LoadItem
LegacyItems(a) ==
    [i \in 1..Len(a) |->
        IF Truthy(a[i]) /\ IsNumber(Get(a[i], "productId")) /\ IsNumber(Get(a[i], "quantity"))
        THEN a[i] ELSE Null]

\* the catch block of loadFromStorage after _handleStorageError has run (H):
\* a restored backup is followed by the load that retries
LoadCaught(H, restoreResult, env, retried) ==
    IF restoreResult.success THEN retried
    ELSE [clearStorageData(H, env) EXCEPT !.reports = Append(@, "cart-load")]

\* CartModule.loadFromStorage() with the number of retries it may still
\* make: the code has no such limit, and a load that would need one more
\* is a load that has not returned ("diverges")
RECURSIVE LoadAttempt(_, _, _)
LoadAttempt(S, env, retries) ==
    LET recoveryResult == recoverData(S, env)
        loaded == LoadItems([items |-> <<>>, skipped |-> 0],
                            Get(recoveryResult.data, "items").a, 1, S.now)
        L == [S EXCEPT !.items = loaded.items]
        cartData == JSONParse(S.primary.text)
        legacy == LoadItems([items |-> <<>>, skipped |-> 0],
                            LegacyItems(Get(cartData.v, "items").a), 1, S.now)
        LL == [S EXCEPT !.items = legacy.items]
        H == handleStorageError(S, IF env.get THEN env.kind ELSE "other")
        restoreResult == restoreFromBackup(H, env)
        caught == LoadCaught(H, restoreResult, env,
                      IF retries = 0 THEN [restoreResult.store EXCEPT !.outcome = "diverges"]
                      ELSE LoadAttempt(restoreResult.store, env, retries - 1))
    IN  IF recoveryResult.success /\ Truthy(recoveryResult.data)
        THEN IF loaded.skipped > 0 THEN saveToStorage(L, env) ELSE L
        ELSE IF env.get THEN caught
        ELSE IF ~S.primary.present \/ S.primary.text = <<>> THEN S
        ELSE IF ~cartData.ok THEN caught
        ELSE IF ~Truthy(cartData.v) \/ Get(cartData.v, "items").t # "arr" THEN caught
        ELSE IF legacy.skipped > 0 THEN saveToStorage(LL, env) ELSE LL

\* CartModule.loadFromStorage()
loadFromStorage(S, env) == LoadAttempt(S, env, MaxLoadRetries)

(***************************************************************************)
(* CartModule: the mutations.  Arguments are JavaScript values.            *)
(***************************************************************************)
\* CartModule.removeItem(productId)
removeItem(S, productId, env) ==
    IF ~IsNumber(productId) \/ ~Greater(productId, 0)
    THEN Throw(S, "Product ID must be a positive number")
    ELSE IF IsInteger(productId) /\ Has(S.items, productId.n)
    THEN saveToStorage(
             notifyListeners([S EXCEPT !.items = Delete(@, productId.n)],
                             Event("itemRemoved", productId.n, 0)),
             env)
    ELSE S

\* the mutant: the merged total is stored before it is validated
addItemMergeFirstValidated(S, productIdResult, quantityResult, env) ==
    LET id == productIdResult.sanitizedValue.n
        q == quantityResult.sanitizedValue.n
        newQuantity == QuantityOf(S.items, id) + q
        M == [S EXCEPT !.items = SetItem(@, id, CartItem(id, newQuantity,
                           IF Has(S.items, id) THEN S.items[IndexOf(S.items, id)].addedAt
                           ELSE Iso(S.now)))]
    IN  IF ~productIdResult.isValid THEN Throw(S, "Invalid product ID")
        ELSE IF ~quantityResult.isValid THEN Throw(S, "Invalid quantity")
        ELSE IF q = 0 THEN S
        ELSE IF ~validateQuantity(IntV(newQuantity)).isValid
        THEN Throw(M, "Failed to add item to cart")
        ELSE saveToStorage(notifyListeners(M, Event("itemAdded", id, q)), env)

\* the mutant: a quantity of zero is not set apart
addItemNoZeroCheck(S, productIdResult, quantityResult, env) ==
    LET id == productIdResult.sanitizedValue.n
        q == quantityResult.sanitizedValue.n
        newQuantity == QuantityOf(S.items, id) + q
        merged == [S EXCEPT !.items[IndexOf(S.items, id)].quantity = newQuantity]
        created == [S EXCEPT !.items = SetItem(@, id, CartItem(id, q, Iso(S.now)))]
    IN  IF ~productIdResult.isValid THEN Throw(S, "Invalid product ID")
        ELSE IF ~quantityResult.isValid THEN Throw(S, "Invalid quantity")
        ELSE IF ~productExists(productIdResult.sanitizedValue)
        THEN Throw(S, "Product not found")
        ELSE IF Has(S.items, id)
        THEN IF ~validateQuantity(IntV(newQuantity)).isValid
             THEN Throw(S, "Failed to add item to cart")
             ELSE saveToStorage(notifyListeners(merged, Event("itemAdded", id, q)), env)
        ELSE saveToStorage(notifyListeners(created, Event("itemAdded", id, q)), env)

\* the mutant: the merged total is stored without being validated
addItemUnchecked(S, productIdResult, quantityResult, env) ==
    LET id == productIdResult.sanitizedValue.n
        q == quantityResult.sanitizedValue.n
        newQuantity == QuantityOf(S.items, id) + q
        merged == [S EXCEPT !.items[IndexOf(S.items, id)].quantity = newQuantity]
        created == [S EXCEPT !.items = SetItem(@, id, CartItem(id, q, Iso(S.now)))]
    IN  IF ~productIdResult.isValid THEN Throw(S, "Invalid product ID")
        ELSE IF ~quantityResult.isValid THEN Throw(S, "Invalid quantity")
        ELSE IF q = 0 THEN S
        ELSE IF ~productExists(productIdResult.sanitizedValue)
        THEN Throw(S, "Product not found")
        ELSE IF Has(S.items, id)
        THEN saveToStorage(notifyListeners(merged, Event("itemAdded", id, q)), env)
        ELSE saveToStorage(notifyListeners(created, Event("itemAdded", id, q)), env)

\* the mutant: a merge stamps the entry with the time of the merge
addItemRestamps(S, productIdResult, quantityResult, env) ==
    LET id == productIdResult.sanitizedValue.n
        q == quantityResult.sanitizedValue.n
        newQuantity == QuantityOf(S.items, id) + q
        merged == [S EXCEPT !.items[IndexOf(S.items, id)].quantity = newQuantity,
                            !.items[IndexOf(S.items, id)].addedAt = Iso(S.now)]
        created == [S EXCEPT !.items = SetItem(@, id, CartItem(id, q, Iso(S.now)))]
    IN  IF ~productIdResult.isValid THEN Throw(S, "Invalid product ID")
        ELSE IF ~quantityResult.isValid THEN Throw(S, "Invalid quantity")
        ELSE IF q = 0 THEN S
        ELSE IF ~productExists(productIdResult.sanitizedValue)
        THEN Throw(S, "Product not found")
        ELSE IF Has(S.items, id)
        THEN IF ~validateQuantity(IntV(newQuantity)).isValid
             THEN Throw(S, "Failed to add item to cart")
             ELSE saveToStorage(notifyListeners(merged, Event("itemAdded", id, q)), env)
        ELSE saveToStorage(notifyListeners(created, Event("itemAdded", id, q)), env)

\* addItem from the two validation results on
addItemValidated(S, productIdResult, quantityResult, env) ==
    LET id == productIdResult.sanitizedValue.n
        q == quantityResult.sanitizedValue.n
        newQuantity == QuantityOf(S.items, id) + q
        merged == [S EXCEPT !.items[IndexOf(S.items, id)].quantity = newQuantity]
        created == [S EXCEPT !.items = SetItem(@, id, CartItem(id, q, Iso(S.now)))]
    IN  IF ~productIdResult.isValid THEN Throw(S, "Invalid product ID")
        ELSE IF ~quantityResult.isValid THEN Throw(S, "Invalid quantity")
        ELSE IF q = 0 THEN S
        ELSE IF ~productExists(productIdResult.sanitizedValue)
        THEN Throw(S, "Product not found")
        ELSE IF Has(S.items, id)
        THEN IF ~validateQuantity(IntV(newQuantity)).isValid
             THEN Throw(S, "Failed to add item to cart")
             ELSE saveToStorage(notifyListeners(merged, Event("itemAdded", id, q)), env)
        ELSE saveToStorage(notifyListeners(created, Event("itemAdded", id, q)), env)

\* the quantity parameter's default
DefaultQuantity(quantityArg) == IF quantityArg.t = "undef" THEN IntV(1) ELSE quantityArg

addItemMergeFirst(S, productId, quantityArg, env) ==
    addItemMergeFirstValidated(S, validateProductId(productId),
                               validateQuantity(DefaultQuantity(quantityArg)), env)

\* CartModule.addItem(productId, quantity = 1)
addItem(S, productId, quantityArg, env) ==
    addItemValidated(S, validateProductId(productId),
                     validateQuantity(DefaultQuantity(quantityArg)), env)

\* the mutant: the zero check is missing, so a quantity of zero is stored
updateQuantityKeepsZeroValidated(S, productIdResult, quantityResult, env) ==
    LET id == productIdResult.sanitizedValue.n
        q == quantityResult.sanitizedValue.n
        updated == [S EXCEPT !.items[IndexOf(S.items, id)].quantity = q]
    IN  IF ~productIdResult.isValid THEN Throw(S, "Invalid product ID")
        ELSE IF ~quantityResult.isValid THEN Throw(S, "Invalid quantity")
        ELSE IF ~Has(S.items, id) THEN Throw(S, "Product not found in cart")
        ELSE saveToStorage(notifyListeners(updated, Event("quantityUpdated", id, q)), env)

\* updateQuantity from the two validation results on
updateQuantityValidated(S, productIdResult, quantityResult, env) ==
    LET id == productIdResult.sanitizedValue.n
        q == quantityResult.sanitizedValue.n
        updated == [S EXCEPT !.items[IndexOf(S.items, id)].quantity = q]
    IN  IF ~productIdResult.isValid THEN Throw(S, "Invalid product ID")
        ELSE IF ~quantityResult.isValid THEN Throw(S, "Invalid quantity")
        ELSE IF ~Has(S.items, id) THEN Throw(S, "Product not found in cart")
        ELSE IF q = 0 THEN removeItem(S, IntV(id), env)
        ELSE saveToStorage(notifyListeners(updated, Event("quantityUpdated", id, q)), env)

updateQuantityKeepsZero(S, productId, quantity, env) ==
    updateQuantityKeepsZeroValidated(S, validateProductId(productId),
                                     validateQuantity(quantity), env)

\* CartModule.updateQuantity(productId, quantity)
updateQuantity(S, productId, quantity, env) ==
    updateQuantityValidated(S, validateProductId(productId), validateQuantity(quantity), env)

\* CartModule.addListener(listener): a Set, so a listener is held once
addListener(S, listener) ==
    IF listener.isFunction /\ ~\E i \in 1..Len(S.listeners) : S.listeners[i].id = listener.id
    THEN [S EXCEPT !.listeners = Append(@, [id |-> listener.id, throws |-> listener.throws])]
    ELSE S

\* CartModule.removeListener(listener)
removeListener(S, listener) ==
    [S EXCEPT !.listeners = SelectSeq(@, LAMBDA l : l.id # listener.id)]

\* the mutant: an empty cart is cleared like any other
clearCartAlways(S, env) ==
    saveToStorage(notifyListeners([S EXCEPT !.items = <<>>],
                                  Event("cartCleared", 0, 0)), env)

\* CartModule.clearCart()
clearCart(S, env) ==
    IF Len(S.items) > 0
    THEN saveToStorage(notifyListeners([S EXCEPT !.items = <<>>],
                                       Event("cartCleared", 0, 0)), env)
    ELSE S

\* CartModule.validateCart(): entries that fail CartItem.validate or whose
\* product is gone are dropped
validateCart(S) ==
    [S EXCEPT !.items = SelectSeq(@, LAMBDA it :
        /\ CartItemValid(IntV(it.productId), IntV(it.quantity))
        /\ productExists(IntV(it.productId)))]

\* SAMPLE_PRODUCTS[id].price, in tenths of a cent
Prices == <<59990, 199990, 39990, 79990, 49990, 24990, 34990, 19990>>

\* Math.round(total * 100) / 100 of an amount in tenths of a cent
Round2(amount) == ((amount + 5) \div 10) * 10

\* the mutant: an entry counts once, whatever its quantity
getCartTotalPerEntry(cart) ==
    LET total[i \in 0..Len(cart)] ==
            IF i = 0 THEN 0
            ELSE IF productExists(IntV(cart[i].productId))
            THEN total[i - 1] + Prices[cart[i].productId]
            ELSE total[i - 1]
    IN  Round2(total[Len(cart)])

\* CartModule.getCartTotal(): entries whose product is not found add nothing
getCartTotal(cart) ==
    LET total[i \in 0..Len(cart)] ==
            IF i = 0 THEN 0
            ELSE IF productExists(IntV(cart[i].productId))
            THEN total[i - 1] + cart[i].quantity * Prices[cart[i].productId]
            ELSE total[i - 1]
    IN  Round2(total[Len(cart)])

\* the mutant: the entries are counted, not their quantities
getCartCountEntries(cart) == Len(cart)

\* CartModule.getCartCount()
getCartCount(cart) ==
    LET count[i \in 0..Len(cart)] ==
            IF i = 0 THEN 0 ELSE count[i - 1] + cart[i].quantity
    IN  count[Len(cart)]

\* CartModule.isEmpty()
isEmpty(cart) == Len(cart) = 0

\* CartModule.getCartSummary(): its itemCount, subtotal and total
getCartSummary(cart) ==
    LET subtotal[i \in 0..Len(cart)] ==
            IF i = 0 THEN 0
            ELSE IF productExists(IntV(cart[i].productId))
            THEN subtotal[i - 1] + cart[i].quantity * Prices[cart[i].productId]
            ELSE subtotal[i - 1]
    IN  [itemCount |-> getCartCount(cart),
         subtotal |-> Round2(subtotal[Len(cart)]),
         total |-> Round2(subtotal[Len(cart)])]

\* CartModule.getCartItem(productId).quantity, 0 standing for no entry
getCartItemQuantity(S, productId) == QuantityOf(S.items, productId)

\* CartModule.getStorageInfo().sessionOnly: the catch block reports true
getStorageInfoSessionOnly(S, env) == IF env.get THEN TRUE ELSE S.sessionOnly

(***************************************************************************)
(* Inputs of the model.                                                    *)
(***************************************************************************)
\* texts a caller may pass: '2x', 'x', '-2', '2.5'
Texts == {<<"2", "x">>, <<"x">>, <<"-", "2">>, <<"2", ".", "5">>}
\* what a caller may pass for a quantity: numbers, texts, null, nothing
QtyInputs ==
    {IntV(0 - 1), IntV(0), Num(0, TRUE), IntV(1), Num(2, TRUE), IntV(MaxQuantity),
     IntV(MaxQuantity + 1)}
    \cup {Str(cs) : cs \in Texts} \cup {Null, Undef}
\* what a caller may pass for a product id
IdInputs ==
    {IntV(0), IntV(1), Num(1, TRUE), IntV(CatalogSize), IntV(CatalogSize + 1),
     Str(<<"1">>)}

\* blobs a store may hold: an items list of at most MaxBlobItems items
BlobItem(productId, quantity, addedAt) ==
    Obj(<<Prop("productId", productId), Prop("quantity", quantity),
          Prop("addedAt", addedAt)>>)
BlobItems ==
    {BlobItem(IntV(1), IntV(2), Undef), BlobItem(IntV(1), IntV(2), Iso(0)),
     BlobItem(IntV(1), IntV(0), Undef), BlobItem(IntV(1), Num(0, TRUE), Undef),
     BlobItem(Num(1, TRUE), Num(0, TRUE), Undef), BlobItem(Num(0, TRUE), IntV(2), Undef),
     BlobItem(IntV(0 - 1), IntV(0 - 5), Undef), BlobItem(Str(<<"1">>), IntV(2), Undef),
     BlobItem(IntV(CatalogSize + 1), IntV(2), Undef),
     BlobItem(IntV(1), IntV(MaxQuantity + 1), Undef), Null}
Blob(itemList) == Obj(<<Prop("items", Arr(itemList)), Prop("timestamp", Iso(0))>>)
Blobs(maxItems) ==
    {Blob(l) : l \in UNION {[1..n -> BlobItems] : n \in 0..maxItems}}
    \cup {Null, Obj(<<>>), Arr(<<>>), IntV(5),
          Obj(<<Prop("items", Arr(<<BlobItem(IntV(1), IntV(2), Undef)>>))>>)}

\* a text as it may be found in the store: the JSON of a blob, whole, with
\* its end cut off, with a comma before the last closer, or with its first
\* key unquoted
CutEnd(toks, k) == SubSeq(toks, 1, Len(toks) - k)
Damaged(toks) ==
    {toks} \cup {CutEnd(toks, k) : k \in 1..3}
    \cup {Append(CutEnd(toks, 1), Tok("junk"))}
    \cup {IF Len(toks) > 1
          THEN CutEnd(toks, 1) \o <<Tok(","), toks[Len(toks)]>> ELSE toks}
    \cup {IF Len(toks) > 1 /\ toks[2].k = "str"
          THEN [toks EXCEPT ![2].k = "id"] ELSE toks}
StoredTexts(maxItems) == UNION {Damaged(Stringify(b)) : b \in Blobs(maxItems)}

\* what the cart manager may find under its key: the JSON of a blob of at
\* most one item, whole or with its last token cut off
ExternalTexts ==
    UNION {{Stringify(b), CutEnd(Stringify(b), 1)} : b \in Blobs(1)}

(***************************************************************************)
(* The application, ShoppingCartApp: the dependencies of its modules, the  *)
(* order they are initialized in, and its initialize() calls.              *)
(***************************************************************************)
\* the Map setupDependencies builds: its keys in insertion order, and each
\* key's list
Dependencies ==
    [keys |->
        <<"errorHandler", "models", "validation", "products", "cart", "ui", "accessibility">>,
     deps |->
        [errorHandler |-> <<>>,
         models |-> <<>>,
         validation |-> <<"errorHandler">>,
         products |-> <<"models", "errorHandler">>,
         cart |-> <<"models", "products", "errorHandler", "validation">>,
         ui |-> <<"products", "cart", "errorHandler", "validation">>,
         accessibility |-> <<"ui">>]]

\* the Maps of the first MaxModules modules, each depending on any of them
\* (itself included), and one whose dependency is no key of the Map
DependencyMaps ==
    LET keys == SubSeq(Dependencies.keys, 1, MaxModules)
        names == {keys[i] : i \in 1..Len(keys)}
    IN  {[keys |-> keys,
          deps |-> [name \in names |-> SelectSeq(keys, LAMBDA dep : dep \in on[name])]] :
            on \in [names -> SUBSET names]}
        \cup {[keys |-> keys, deps |-> [name \in names |-> <<"undeclared">>]]}

\* calculateInitializationOrder with order.push before the dependencies
calculateInitializationOrderEager(dependencies) ==
    LET RECURSIVE visit(_, _), visitEach(_, _, _)
        visit(st, moduleName) ==
            IF st.error # "" THEN st
            ELSE IF moduleName \in st.visiting
            THEN [st EXCEPT !.error = "Circular dependency detected"]
            ELSE IF moduleName \in st.visited THEN st
            ELSE LET deps == IF moduleName \in DOMAIN dependencies.deps
                             THEN dependencies.deps[moduleName] ELSE <<>>
                     after == visitEach([st EXCEPT !.visiting = @ \cup {moduleName},
                                                   !.order = Append(@, moduleName)],
                                        deps, 1)
                 IN  IF after.error # "" THEN after
                     ELSE [after EXCEPT !.visiting = @ \ {moduleName},
                                        !.visited = @ \cup {moduleName}]
        visitEach(st, names, i) ==
            IF i > Len(names) THEN st ELSE visitEach(visit(st, names[i]), names, i + 1)
    IN  visitEach([visited |-> {}, visiting |-> {}, order |-> <<>>, error |-> ""],
                  dependencies.keys, 1)

\* calculateInitializationOrder: a depth-first visit of the keys; error is
\* the message of the Error thrown, "" when the order is returned
calculateInitializationOrder(dependencies) ==
    LET RECURSIVE visit(_, _), visitEach(_, _, _)
        visit(st, moduleName) ==
            IF st.error # "" THEN st
            ELSE IF moduleName \in st.visiting
            THEN [st EXCEPT !.error = "Circular dependency detected"]
            ELSE IF moduleName \in st.visited THEN st
            ELSE LET deps == IF moduleName \in DOMAIN dependencies.deps
                             THEN dependencies.deps[moduleName] ELSE <<>>
                     after == visitEach([st EXCEPT !.visiting = @ \cup {moduleName}],
                                        deps, 1)
                 IN  IF after.error # "" THEN after
                     ELSE [after EXCEPT !.visiting = @ \ {moduleName},
                                        !.visited = @ \cup {moduleName},
                                        !.order = Append(@, moduleName)]
        visitEach(st, names, i) ==
            IF i > Len(names) THEN st ELSE visitEach(visit(st, names[i]), names, i + 1)
    IN  visitEach([visited |-> {}, visiting |-> {}, order |-> <<>>, error |-> ""],
                  dependencies.keys, 1)

\* setupDependencies: the Map and the order computed from it; when the
\* computation throws, the constructor throws and no order is held
setupDependencies(a, dependencies) ==
    LET calculated == calculateInitializationOrder(dependencies)
    IN  [a EXCEPT !.dependencies = dependencies,
                  !.initializationOrder = IF calculated.error = "" THEN calculated.order
                                          ELSE <<>>,
                  !.error = calculated.error,
                  !.constructed = TRUE]

\* the application before its constructor has run: calls holds the
\* position of each initialize() call made, handlers the number of sets
\* of global event handlers registered, timers the health-check timers
NoApp ==
    [dependencies |-> Dependencies, initializationOrder |-> <<>>, error |-> "",
     constructed |-> FALSE, initialized |-> FALSE, calls |-> <<>>,
     handlers |-> 0, timers |-> 0]

(***************************************************************************)
(* The state machine.                                                      *)
(***************************************************************************)
VARIABLES
    items,          \* CartModule.items
    sessionOnly,    \* CartModule.sessionOnly
    primary,        \* the store's 'shopping-cart-items'
    savedAt,        \* the store's 'shopping-cart-timestamp'
    backups,        \* the store's backup records, by their millis
    now,            \* the clock
    last,           \* the last operation: its name, outcome and effects
    ops,            \* the number of operations so far
    recovery,       \* the result of the recoverData call of a recovery run
    created,        \* the clock readings of the createBackup calls so far
    listeners,      \* CartModule.listeners, the Set in insertion order
    app             \* the ShoppingCartApp: its fields and its initialize() calls

vars == <<items, sessionOnly, primary, savedAt, backups, now, last, ops, recovery, created,
          listeners, app>>

\* the state an operation starts in
Start ==
    [items |-> items, sessionOnly |-> sessionOnly, primary |-> primary,
     savedAt |-> savedAt, backups |-> backups, now |-> now,
     listeners |-> listeners,
     events |-> <<>>, calls |-> <<>>, writes |-> <<>>, reports |-> <<>>,
     outcome |-> "ok", error |-> ""]

Log(op, R) ==
    [op |-> op, outcome |-> R.outcome, error |-> R.error, events |-> R.events,
     calls |-> R.calls, writes |-> R.writes, reports |-> R.reports]

\* the operation op ends in R
Apply(op, R) ==
    /\ items' = R.items
    /\ sessionOnly' = R.sessionOnly
    /\ primary' = R.primary
    /\ savedAt' = R.savedAt
    /\ backups' = R.backups
    /\ last' = Log(op, R)
    /\ ops' = ops + 1
    /\ UNCHANGED <<now, recovery, created, listeners, app>>

\* after the constructor, over an empty store
Init ==
    /\ items = <<>>
    /\ sessionOnly = FALSE
    /\ primary = NoText
    /\ savedAt = NoText
    /\ backups = <<>>
    /\ now = 0
    /\ listeners = <<>>
    /\ last = Log("constructor", Start)
    /\ ops = 0
    /\ recovery = [done |-> FALSE]
    /\ created = <<>>
    /\ app = NoApp

\* the failure modes that can tell on an operation that ends in R over a
\* working store: with no write in R it never reached the store
StoreModes(R) == IF R.writes = <<>> THEN {NoFailure} ELSE FailModes

AddItem ==
    /\ ops < MaxOps
    /\ \E productId \in IdInputs, quantity \in QtyInputs :
       \E env \in StoreModes(addItem(Start, productId, quantity, NoFailure)) :
          Apply("addItem", addItem(Start, productId, quantity, env))

RemoveItem ==
    /\ ops < MaxOps
    /\ \E productId \in IdInputs :
       \E env \in StoreModes(removeItem(Start, productId, NoFailure)) :
          Apply("removeItem", removeItem(Start, productId, env))

UpdateQuantity ==
    /\ ops < MaxOps
    /\ \E productId \in IdInputs, quantity \in QtyInputs :
       \E env \in StoreModes(updateQuantity(Start, productId, quantity, NoFailure)) :
          Apply("updateQuantity", updateQuantity(Start, productId, quantity, env))

ClearCart ==
    /\ ops < MaxOps
    /\ \E env \in StoreModes(clearCart(Start, NoFailure)) :
          Apply("clearCart", clearCart(Start, env))

ValidateCart ==
    /\ ops < MaxOps
    /\ Apply("validateCart", validateCart(Start))

ReloadFromStorage ==
    /\ ops < MaxOps
    /\ \E env \in FailModes : Apply("reloadFromStorage", loadFromStorage(Start, env))

\* before the session's first operation, something other than this cart
\* manager (an earlier version, another tab) leaves a text under the primary key
ExternalWrite ==
    /\ ops = 0
    /\ \E text \in ExternalTexts :
          Apply("external", [Start EXCEPT !.primary = Text(text)])

\* the clock advances between two operations; only the time between
\* operations matters, so it stands still before the first and after the last
Tick ==
    /\ ops > 0
    /\ ops < MaxOps
    /\ now < MaxClock
    /\ now' = now + 1
    /\ UNCHANGED <<items, sessionOnly, primary, savedAt, backups, last, ops, recovery, created,
                   listeners, app>>

Next ==
    \/ AddItem
    \/ RemoveItem
    \/ UpdateQuantity
    \/ ClearCart
    \/ ValidateCart
    \/ ReloadFromStorage
    \/ ExternalWrite
    \/ Tick

Spec == Init /\ [][Next]_vars

(***************************************************************************)
(* A recovery run: recoverData('cart', 'shopping-cart-items') over a text  *)
(* found in the store, with a store whose reads work or throw.             *)
(***************************************************************************)
InitRecover ==
    /\ items = <<>>
    /\ sessionOnly = FALSE
    /\ primary \in {NoText, Text(<<>>)} \cup {Text(t) : t \in StoredTexts(MaxBlobItems)}
    /\ savedAt = NoText
    /\ backups = <<>>
    /\ now = 0
    /\ listeners = <<>>
    /\ last = Log("constructor", Start)
    /\ ops = 0
    /\ recovery = [done |-> FALSE]
    /\ created = <<>>
    /\ app = NoApp

RecoverData ==
    /\ ~recovery.done
    /\ \E env \in {e \in FailModes : e.kind \in {"none", "security"}} :
          recovery' = [done |-> TRUE, threw |-> env.get, result |-> recoverData(Start, env)]
    /\ UNCHANGED <<items, sessionOnly, primary, savedAt, backups, now, last, ops, created,
                   listeners, app>>

NextRecover == RecoverData

SpecRecover == InitRecover /\ [][NextRecover]_vars

(***************************************************************************)
(* A backup run: createBackup('cart', data) called again and again over a  *)
(* working store, while the clock advances or stands still between calls.  *)
(***************************************************************************)
BackupData == {Blob(<<>>), Blob(<<BlobItem(IntV(1), IntV(2), Iso(0))>>)}

CreateBackup ==
    /\ Len(created) < MaxBackupCalls
    /\ \E data \in BackupData :
          LET R == createBackup(Start, data, NoFailure)
          IN  /\ backups' = R.backups
              /\ last' = Log("createBackup", R)
    /\ created' = Append(created, now)
    /\ UNCHANGED <<items, sessionOnly, primary, savedAt, now, ops, recovery, listeners, app>>

BackupTick ==
    /\ now < MaxBackupClock
    /\ now' = now + 1
    /\ UNCHANGED <<items, sessionOnly, primary, savedAt, backups, last, ops, recovery, created,
                   listeners, app>>

NextBackup ==
    \/ CreateBackup
    \/ BackupTick

SpecBackup == Init /\ [][NextBackup]_vars

(***************************************************************************)
(* A load: loadFromStorage(), or restoreFromBackup() alone, over what an    *)
(* earlier session left in the store, a text under the key and backups,    *)
(* with a store that works or fails in the way recovery.env tells.         *)
(***************************************************************************)
\* the data an earlier save may have backed up: whatever parsed
BackupSets ==
    {<<>>} \cup {[k \in {0} |-> Stringify(BackupRecord(data, 0))] :
                     data \in {Blob(<<>>), Null, IntV(5)}}
    \cup {[k \in 1..MaxRestorable |->
              Stringify(BackupRecord(IF k = MaxRestorable THEN IntV(5) ELSE Blob(<<>>), k))]}

InitLoad ==
    /\ items = <<>>
    /\ sessionOnly = FALSE
    /\ primary \in {NoText, Text(<<>>)} \cup {Text(t) : t \in StoredTexts(MaxBlobItems)}
    /\ savedAt = NoText
    /\ backups \in BackupSets
    /\ now = 0
    /\ listeners = <<>>
    /\ last = Log("constructor", Start)
    /\ ops = 0
    /\ recovery \in {[done |-> FALSE, env |-> env] : env \in FailModes}
    /\ created = <<>>
    /\ app = NoApp

LoadFromStorage ==
    /\ ops = 0
    /\ Apply("loadFromStorage", loadFromStorage(Start, recovery.env))

\* restoreFromBackup called on its own; its result's error is logged
RestoreFromBackup ==
    /\ ops = 0
    /\ LET restoreResult == restoreFromBackup(Start, recovery.env)
       IN  Apply("restoreFromBackup",
                 [restoreResult.store EXCEPT !.error = restoreResult.error])

NextLoad ==
    \/ LoadFromStorage
    \/ RestoreFromBackup

SpecLoad == InitLoad /\ [][NextLoad]_vars

(***************************************************************************)
(* A session with listeners: callbacks are registered and removed before   *)
(* the first operation, some of them throw whenever they are called, and   *)
(* the cart is changed by valid calls over a store that works or fails.    *)
(***************************************************************************)
\* what a caller may register: listener id throws when id is even; 0 is a
\* value that is not a function
ListenerInputs ==
    {[id |-> id, throws |-> id % 2 = 0, isFunction |-> TRUE] : id \in 1..MaxListeners}
    \cup {[id |-> 0, throws |-> FALSE, isFunction |-> FALSE]}
ObservedIds == {IntV(1), IntV(CatalogSize)}
ObservedQuantities == {IntV(0), IntV(1), IntV(MaxQuantity)}

AddListener ==
    /\ ops = 0
    /\ \E listener \in ListenerInputs : listeners' = addListener(Start, listener).listeners
    /\ UNCHANGED <<items, sessionOnly, primary, savedAt, backups, now, last, ops, recovery,
                   created, app>>

RemoveListener ==
    /\ ops = 0
    /\ \E listener \in ListenerInputs : listeners' = removeListener(Start, listener).listeners
    /\ UNCHANGED <<items, sessionOnly, primary, savedAt, backups, now, last, ops, recovery,
                   created, app>>

ObservedAddItem ==
    /\ ops < MaxOps
    /\ \E productId \in ObservedIds, quantity \in ObservedQuantities, env \in FailModes :
          Apply("addItem", addItem(Start, productId, quantity, env))

ObservedRemoveItem ==
    /\ ops < MaxOps
    /\ \E productId \in ObservedIds, env \in FailModes :
          Apply("removeItem", removeItem(Start, productId, env))

ObservedUpdateQuantity ==
    /\ ops < MaxOps
    /\ \E productId \in ObservedIds, quantity \in ObservedQuantities, env \in FailModes :
          Apply("updateQuantity", updateQuantity(Start, productId, quantity, env))

ObservedClearCart ==
    /\ ops < MaxOps
    /\ \E env \in FailModes : Apply("clearCart", clearCart(Start, env))

NextListeners ==
    \/ AddListener
    \/ RemoveListener
    \/ ObservedAddItem
    \/ ObservedRemoveItem
    \/ ObservedUpdateQuantity
    \/ ObservedClearCart
    \/ ReloadFromStorage

SpecListeners == Init /\ [][NextListeners]_vars

(***************************************************************************)
(* The constructor of the application over a dependency Map: the real one  *)
(* or a generated one, with or without a cycle.                            *)
(***************************************************************************)
InitOrder ==
    /\ items = <<>>
    /\ sessionOnly = FALSE
    /\ primary = NoText
    /\ savedAt = NoText
    /\ backups = <<>>
    /\ now = 0
    /\ listeners = <<>>
    /\ last = Log("constructor", Start)
    /\ ops = 0
    /\ recovery = [done |-> FALSE]
    /\ created = <<>>
    /\ app \in {[NoApp EXCEPT !.dependencies = dependencies] :
                   dependencies \in DependencyMaps \cup {Dependencies}}

SetupDependencies ==
    /\ ~app.constructed
    /\ app' = setupDependencies(app, app.dependencies)
    /\ UNCHANGED <<items, sessionOnly, primary, savedAt, backups, now, last, ops, recovery,
                   created, listeners>>

NextOrder == SetupDependencies

SpecOrder == InitOrder /\ [][NextOrder]_vars

(***************************************************************************)
(* The constructed application and its initialize() calls. A call runs     *)
(* from one await to the next in one step; the calls made (the one the     *)
(* constructor schedules, restart()'s, a caller's) interleave at the       *)
(* awaits. All required globals and modules are present, so no step        *)
(* throws.                                                                 *)
(***************************************************************************)
InitApp ==
    /\ items = <<>>
    /\ sessionOnly = FALSE
    /\ primary = NoText
    /\ savedAt = NoText
    /\ backups = <<>>
    /\ now = 0
    /\ listeners = <<>>
    /\ last = Log("constructor", Start)
    /\ ops = 0
    /\ recovery = [done |-> FALSE]
    /\ created = <<>>
    /\ app = setupDependencies(NoApp, Dependencies)

\* initialize() is called: the test of the flag, then checkRequiredGlobals
\* up to the await of its result
Initialize ==
    /\ Len(app.calls) < MaxCalls
    /\ app' = [app EXCEPT !.calls =
                  Append(@, IF app.initialized THEN [at |-> "returned", next |-> 0]
                            ELSE [at |-> "checkRequiredGlobals", next |-> 1])]
    /\ UNCHANGED <<items, sessionOnly, primary, savedAt, backups, now, last, ops, recovery,
                   created, listeners>>

\* a suspended call goes on to its next await, or to its end:
\* initializeModule of the next module of the order (initializeCart adds a
\* new arrow function to the cart's listeners); then
\* setupGlobalEventListeners and initializeCartFromStorage; then
\* performInitialRender; then setupErrorRecovery and the flag
Resume ==
    \E c \in 1..Len(app.calls) :
        LET call == app.calls[c]
            order == app.initializationOrder
        IN  /\ call.at # "returned"
            /\ IF call.at \in {"checkRequiredGlobals", "initializeModules"}
                  /\ call.next <= Len(order)
               THEN /\ app' = [app EXCEPT !.calls[c] =
                                  [at |-> "initializeModules", next |-> call.next + 1]]
                    /\ listeners' =
                          IF order[call.next] = "cart"
                          THEN addListener(Start, [id |-> Len(listeners) + 1,
                                                   throws |-> FALSE,
                                                   isFunction |-> TRUE]).listeners
                          ELSE listeners
               ELSE /\ UNCHANGED listeners
                    /\ app' =
                          CASE call.at \in {"checkRequiredGlobals", "initializeModules"} ->
                                 [app EXCEPT !.handlers = @ + 1,
                                             !.calls[c].at = "initializeCartFromStorage"]
                            [] call.at = "initializeCartFromStorage" ->
                                 [app EXCEPT !.calls[c].at = "performInitialRender"]
                            [] OTHER ->
                                 [app EXCEPT !.timers = @ + 1,
                                             !.initialized = TRUE,
                                             !.calls[c].at = "returned"]
    /\ UNCHANGED <<items, sessionOnly, primary, savedAt, backups, now, last, ops, recovery,
                   created>>

NextApp ==
    \/ Initialize
    \/ Resume

SpecApp == InitApp /\ [][NextApp]_vars

(***************************************************************************)
(* The properties                                                          *)
(***************************************************************************)
Range(seq) == {seq[i] : i \in 1..Len(seq)}

\* what a caller and the store can tell of the end of an operation
Effects(R) ==
    [items |-> R.items, sessionOnly |-> R.sessionOnly, primary |-> R.primary,
     savedAt |-> R.savedAt, backups |-> R.backups, outcome |-> R.outcome,
     events |-> R.events, writes |-> R.writes]

\* C1: in every reachable state, loads over any stored text included, no
\* entry of the cart has a quantity of zero (every entry's quantity is >= 1)
C1_NoZeroQuantity ==
    \A i \in 1..Len(items) : items[i].quantity >= 1

\* C2: an addItem of a positive quantity q that returns normally leaves one
\* entry for the product, whose quantity is the one before (0 without an
\* entry) plus q: the entry holds the sum of the quantities added
C2_AddItemSums ==
    \A id \in CatalogIds, env \in FailModes :
    \A q \in {v \in QtyInputs : IsNumber(v) /\ Greater(v, 0)} :
        LET R == addItem(Start, IntV(id), q, env)
        IN  R.outcome = "ok" =>
                /\ ~q.f
                /\ QuantityOf(R.items, id) = QuantityOf(items, id) + q.n
                /\ Cardinality({i \in 1..Len(R.items) : R.items[i].productId = id}) = 1

\* C3 as stated: for every cart state and every product id,
\* updateQuantity(id, 0) ends as removeItem(id) does: the same cart, the same
\* outcome, the same events and the same writes to the store
C3_ZeroIsRemoveForEveryId ==
    \A id \in IdInputs, env \in FailModes :
        Effects(updateQuantity(Start, id, IntV(0), env)) = Effects(removeItem(Start, id, env))

\* C3 amended: for every cart state and every integer product id that has
\* an entry in the cart, updateQuantity(id, 0) ends as removeItem(id) does
C3_ZeroIsRemoveForEntries ==
    \A id \in IdInputs, env \in FailModes :
        (IsInteger(id) /\ Has(items, id.n)) =>
            Effects(updateQuantity(Start, id, IntV(0), env)) = Effects(removeItem(Start, id, env))

\* an updateQuantity(id, 0) has just removed the entry of id
C3_Witness ==
    /\ last.op = "updateQuantity"
    /\ last.outcome = "ok"
    /\ last.events # <<>>
    /\ last.events[1].event = "itemRemoved"

\* C4: a failed save sets sessionOnly, and sessionOnly is one-way: once it is
\* set every later operation leaves it set, no later save writes to the
\* store, and getStorageInfo reports session-only mode
C4_SessionOnlyIsFinal ==
    [][ /\ ("cart-save" \in Range(last'.reports)) => sessionOnly'
        /\ sessionOnly => sessionOnly'
        /\ (sessionOnly /\ last'.op # "external") => UNCHANGED <<primary, savedAt, backups>>
        /\ sessionOnly' =>
              \A env \in FailModes :
                  /\ saveToStorage(Start', env) = Start'
                  /\ getStorageInfoSessionOnly(Start', env) ]_vars

\* a mutation in session-only mode: it changed the cart and told the
\* listeners, and neither wrote to the store nor reported a failure
C4_Witness ==
    /\ sessionOnly
    /\ last.op = "addItem"
    /\ last.outcome = "ok"
    /\ last.events # <<>>
    /\ last.writes = <<>>
    /\ last.reports = <<>>

\* C5: after n createBackup calls over a working store exactly min(n, 5)
\* backup records exist, those of the min(n, 5) most recent calls, whether
\* or not the clock advanced between the calls
C5_BackupRotation ==
    LET n == Len(created)
        m == IF n < MaxBackups THEN n ELSE MaxBackups
    IN  /\ Cardinality(DOMAIN backups) = m
        /\ DOMAIN backups = {created[i] : i \in (n - m + 1)..n}

\* the text of the recovery run does not parse as it is and parses once repaired
Repairable ==
    /\ primary.present
    /\ primary.text # <<>>
    /\ ~JSONParse(primary.text).ok
    /\ repairMalformedJson(primary.text).ok

\* C6: when the stored text fails to parse and its repaired text parses,
\* recoverData reports success with the strategy 'json-repair'
C6_JsonRepairStrategy ==
    (recovery.done /\ ~recovery.threw /\ Repairable) =>
        /\ recovery.result.success
        /\ recovery.result.strategy = "json-repair"

\* the text of the recovery run parses and fails the validation of the cart strategy
ParsesInvalid ==
    /\ primary.present
    /\ primary.text # <<>>
    /\ JSONParse(primary.text).ok
    /\ ~cartValidate(JSONParse(primary.text).v)

\* C7: for a stored text that parses and fails the validation, recoverData
\* reports success with the strategy 'data-repair', and every item of its
\* data has an integer productId >= 1 and an integer quantity >= 1
C7_DataRepairItems ==
    (recovery.done /\ ~recovery.threw /\ ParsesInvalid) =>
        /\ recovery.result.success
        /\ recovery.result.strategy = "data-repair"
        /\ LET list == Get(recovery.result.data, "items")
           IN  /\ list.t = "arr"
               /\ \A i \in 1..Len(list.a) :
                     /\ IsInteger(Get(list.a[i], "productId"))
                     /\ Get(list.a[i], "productId").n >= 1
                     /\ IsInteger(Get(list.a[i], "quantity"))
                     /\ Get(list.a[i], "quantity").n >= 1

\* C8: whatever is stored under the key, and also when the read of the store
\* throws, recoverData returns with success and a data object that has an
\* items array
C8_AlwaysData ==
    recovery.done =>
        /\ recovery.result.success
        /\ Truthy(recovery.result.data)
        /\ Get(recovery.result.data, "items").t = "arr"

\* the read of the store threw, and recoverData answered with the fallback
C8_Witness ==
    /\ recovery.done
    /\ recovery.threw
    /\ recovery.result.success
    /\ recovery.result.strategy = "fallback"

\* C9: an addItem, updateQuantity or removeItem that raises an error leaves
\* the cart as it was, tells no listener and writes nothing to the store
C9_ErrorsLeaveNoTrace ==
    [][ (/\ ops' = ops + 1
         /\ last'.op \in {"addItem", "updateQuantity", "removeItem"}
         /\ last'.outcome = "error")
        => /\ items' = items
           /\ last'.events = <<>>
           /\ last'.writes = <<>>
           /\ UNCHANGED <<sessionOnly, primary, savedAt, backups>> ]_vars

\* an addItem over an entry was refused for its merged total
C9_Witness ==
    /\ last.op = "addItem"
    /\ last.outcome = "error"
    /\ last.error = "Failed to add item to cart"
    /\ items # <<>>

\* an integer in 0..999, the quantities the cart accepts
InRange(v) == IsInteger(v) /\ v.n >= MinQuantity /\ v.n <= MaxQuantity

\* C10: an addItem or updateQuantity whose quantity argument is not an
\* integer in 0..999 raises an error, whatever the id
C10_NoSilentCorrection ==
    \A id \in IdInputs, env \in FailModes :
    \A q \in {v \in QtyInputs : v # Undef /\ ~InRange(v)} :
        /\ addItem(Start, id, q, env).outcome = "error"
        /\ updateQuantity(Start, id, q, env).outcome = "error"


\* the calls that notify every listener of `registered` once, in the order of
\* registration, of each event of `events` in turn
NotifiesAll(calls, events, registered) ==
    /\ Len(calls) = Len(events) * Len(registered)
    /\ \A e \in 1..Len(events), i \in 1..Len(registered) :
          LET call == calls[(e - 1) * Len(registered) + i]
          IN  call.listener = registered[i].id /\ call.event = events[e].event

\* C11: whichever listeners throw, each notification calls every registered
\* listener exactly once, no listener's exception reaches the caller of the
\* operation, and the change is made and, in normal mode over a working
\* store, written
C11_ListenersIsolated ==
    [][ ops' = ops + 1
        => /\ NotifiesAll(last'.calls, last'.events, listeners)
           /\ last'.error # "listener"
           /\ last'.calls # <<>> => last'.outcome = "ok"
           /\ (last'.calls # <<>> /\ ~sessionOnly')
                 => primary' = Text(Stringify(CartData([Start EXCEPT !.items = items']))) ]_vars

\* a listener threw, a listener registered after it was still told of the
\* same event, and the change was written
C11_Witness ==
    /\ \E i, j \in 1..Len(last.calls) :
          /\ i < j
          /\ last.calls[i].threw
          /\ ~last.calls[j].threw
          /\ last.calls[i].event = last.calls[j].event
    /\ last.outcome = "ok"
    /\ ~sessionOnly
    /\ primary = Text(Stringify(CartData(Start)))
    /\ items # <<>>


\* C12: in normal mode the map is changed, then the cart is written, then the
\* listeners are told: a listener that reads the store during its call finds
\* the cart the operation leaves there
C12_ListenerSeesNewState ==
    [][ (ops' = ops + 1 /\ ~sessionOnly')
        => \A i \in 1..Len(last'.calls) : last'.calls[i].seen = primary' ]_vars

\* C13: every public operation that changes the map (addItem, removeItem,
\* updateQuantity, clearCart, validateCart, reloadFromStorage) calls the
\* registered listeners before it returns
C13_EveryChangeNotified ==
    [][ (ops' = ops + 1 /\ items' # items /\ listeners # <<>>)
        => last'.calls # <<>> ]_vars


\* C14: when the read of the store throws during loadFromStorage, the cart
\* is in session-only mode when the load returns
C14_ReadFailureMeansSessionOnly ==
    (last.op = "loadFromStorage" /\ recovery.env.get) => sessionOnly

\* a cart that can be used: every entry is a valid CartItem of a product of
\* the catalog, and no product has two entries
Usable(cart) ==
    /\ \A i \in 1..Len(cart) :
          /\ CartItemValid(IntV(cart[i].productId), IntV(cart[i].quantity))
          /\ productExists(IntV(cart[i].productId))
    /\ \A i, j \in 1..Len(cart) : cart[i].productId = cart[j].productId => i = j

\* C16: whatever is stored and however the store fails, loadFromStorage
\* returns normally and leaves a usable cart; restoring a backup and loading
\* again never goes on without end
C16_LoadReturns ==
    last.op = "loadFromStorage" => (last.outcome = "ok" /\ Usable(items))

\* a load over a working store that holds a text that does not parse and a
\* backup to restore: it returned with an empty cart and wrote nothing
C16_Witness ==
    /\ last.op = "loadFromStorage"
    /\ last.outcome = "ok"
    /\ ~recovery.env.get
    /\ backups # <<>>
    /\ primary.present /\ primary.text # <<>> /\ ~JSONParse(primary.text).ok
    /\ last.writes = <<>>
    /\ items = <<>>

\* the cart `after` holds what the event `e` tells of the cart `before`
Kept(before, after, e) ==
    CASE e.event = "itemAdded" ->
             QuantityOf(after, e.productId) = QuantityOf(before, e.productId) + e.quantity
      [] e.event = "itemRemoved" ->
             Has(before, e.productId) /\ ~Has(after, e.productId)
      [] e.event = "quantityUpdated" ->
             Has(before, e.productId) /\ QuantityOf(after, e.productId) = e.quantity
      [] e.event = "cartCleared" -> before # <<>> /\ after = <<>>
      [] OTHER -> FALSE

\* C15: when a write to the store throws during addItem, removeItem,
\* updateQuantity or clearCart, the call returns normally, the change stays
\* in the map and the listeners are told of it
C15_WriteFailureKeepsChange ==
    [][ (/\ ops' = ops + 1
         /\ last'.op \in {"addItem", "removeItem", "updateQuantity", "clearCart"}
         /\ "cart-save" \in Range(last'.reports))
        => /\ last'.outcome = "ok"
           /\ Kept(items, items', last'.events[1])
           /\ NotifiesAll(last'.calls, last'.events, listeners) ]_vars

\* an addItem whose save failed: it returned, the entry is in the map, a
\* listener was told of it and nothing of it is in the store
C15_Witness ==
    /\ last.op = "addItem"
    /\ "cart-save" \in Range(last.reports)
    /\ last.outcome = "ok"
    /\ last.calls # <<>>
    /\ last.calls[1].event = "itemAdded"
    /\ Has(items, last.events[1].productId)
    /\ ~primary.present

\* C17: from the same cart, a manager in normal mode and one in session-only
\* mode, given the same addItem, removeItem, updateQuantity or clearCart call
\* over a store that works, end with equal maps, equal outcomes and equal
\* events; the one in session-only mode leaves the store as it was
C17_ModesAgree ==
    LET Normal == [Start EXCEPT !.sessionOnly = FALSE]
        Session == [Start EXCEPT !.sessionOnly = TRUE]
        ids == ObservedIds \cup {IntV(0)}
        quantities == ObservedQuantities
        Pairs ==
            {<<addItem(Normal, p, q, NoFailure), addItem(Session, p, q, NoFailure)>> :
                p \in ids, q \in quantities}
            \cup {<<updateQuantity(Normal, p, q, NoFailure),
                    updateQuantity(Session, p, q, NoFailure)>> : p \in ids, q \in quantities}
            \cup {<<removeItem(Normal, p, NoFailure), removeItem(Session, p, NoFailure)>> :
                     p \in ids}
            \cup {<<clearCart(Normal, NoFailure), clearCart(Session, NoFailure)>>}
    IN  \A pair \in Pairs :
          /\ pair[1].items = pair[2].items
          /\ pair[1].outcome = pair[2].outcome
          /\ pair[1].error = pair[2].error
          /\ pair[1].events = pair[2].events
          /\ ~pair[1].sessionOnly /\ pair[2].sessionOnly
          /\ pair[2].writes = <<>>
          /\ pair[2].primary = primary
          /\ pair[2].savedAt = savedAt
          /\ pair[2].backups = backups

\* a cart with an entry and a listener, in session-only mode, over a store
\* that holds an older cart: the calls compared change the map and the modes
\* part on the store
C17_Witness ==
    /\ sessionOnly
    /\ items # <<>>
    /\ listeners # <<>>
    /\ primary.present
    /\ primary # Text(Stringify(CartData(Start)))
    /\ clearCart([Start EXCEPT !.sessionOnly = FALSE], NoFailure).primary # primary
    /\ clearCart(Start, NoFailure).items = <<>>

\* C18: for every id, cart and store, addItem(id, 0) creates and changes no
\* entry, notifies nobody and writes nothing
C18_AddZeroDoesNothing ==
    \A productId \in IdInputs, env \in FailModes :
        LET R == addItem(Start, productId, IntV(0), env)
        IN  /\ R.items = items
            /\ R.events = <<>> /\ R.calls = <<>> /\ R.writes = <<>>
            /\ R.primary = primary /\ R.savedAt = savedAt /\ R.backups = backups
            /\ R.sessionOnly = sessionOnly

\* an addItem that returned without an event, which only a quantity of zero
\* does, on a cart with an entry and a listener, in normal mode
C18_Witness ==
    /\ last.op = "addItem"
    /\ last.outcome = "ok"
    /\ last.events = <<>>
    /\ items # <<>>
    /\ listeners # <<>>
    /\ ~sessionOnly

\* C19: clearCart on an empty cart calls no listener and writes nothing; on
\* a cart with entries it empties the map, tells the listeners of exactly
\* one cartCleared, and the empty cart is written (normal mode, working store)
C19_ClearCart ==
    \A env \in FailModes :
        LET R == clearCart(Start, env)
            cleared == {e \in 1..Len(R.events) : R.events[e].event = "cartCleared"}
        IN  IF items = <<>>
            THEN /\ R.items = <<>>
                 /\ R.events = <<>> /\ R.calls = <<>> /\ R.writes = <<>>
                 /\ R.primary = primary /\ R.savedAt = savedAt /\ R.backups = backups
            ELSE /\ R.items = <<>>
                 /\ cleared = {1}
                 /\ NotifiesAll(R.calls, R.events, listeners)
                 /\ (~sessionOnly /\ env = NoFailure)
                       => R.primary = Text(Stringify(CartData(R)))

\* a clearCart of a cart with entries has just run: one event, the empty
\* cart in the store, and a cart on which the next clearCart does nothing
C19_Witness ==
    /\ last.op = "clearCart"
    /\ Len(last.events) = 1
    /\ last.events[1].event = "cartCleared"
    /\ last.calls # <<>>
    /\ items = <<>>
    /\ primary = Text(Stringify(CartData(Start)))

\* C20: an addItem whose total with the entry's quantity is above 999 ends
\* in an error and leaves the cart as it was; no entry ever has a quantity
\* above 999, whatever was called and whatever was loaded
C20_QuantityCeiling ==
    /\ \A i \in 1..Len(items) : items[i].quantity <= MaxQuantity
    /\ \A i \in 1..Len(items), q \in {1, MaxQuantity} :
          items[i].quantity + q > MaxQuantity
          => LET R == addItem(Start, IntV(items[i].productId), IntV(q), NoFailure)
             IN  R.outcome = "error" /\ R.items = items

\* an addItem over an entry of 999 was refused, and the entry still has 999
C20_Witness ==
    /\ last.op = "addItem"
    /\ last.error = "Failed to add item to cart"
    /\ \E i \in 1..Len(items) : items[i].quantity = MaxQuantity

\* C21: in every reachable state each key of the cart map is the productId
\* of its entry, no product has two entries, and every key is the id of a
\* product of the catalog
C21_KeysAreProductIds ==
    /\ \A i \in 1..Len(items) :
          /\ items[i].key = items[i].productId
          /\ productExists(IntV(items[i].key))
    /\ \A i, j \in 1..Len(items) :
          (items[i].key = items[j].key \/ items[i].productId = items[j].productId) => i = j

\* an entry was loaded from a text that somebody else left in the store
C21_Witness ==
    /\ last.op = "reloadFromStorage"
    /\ last.outcome = "ok"
    /\ Len(items) = 1
    /\ items[1].key \in CatalogIds
    /\ primary.present

\* C22: every save that overwrites a value (a text that is not empty) under
\* the primary key first writes a backup record that holds that value
C22_BackupBeforeOverwrite ==
    [][ (/\ ops' = ops + 1
         /\ last'.op \in {"addItem", "removeItem", "updateQuantity", "clearCart"}
         /\ primary.present /\ primary.text # <<>>
         /\ Write("set", "items", 0) \in Range(last'.writes))
        => /\ \E i, j \in 1..Len(last'.writes) :
                 /\ i < j
                 /\ last'.writes[i] = Write("set", "backup", now)
                 /\ last'.writes[j] = Write("set", "items", 0)
           /\ now \in DOMAIN backups'
           /\ JSONParse(primary.text).ok
           /\ backups'[now] = Stringify(BackupRecord(JSONParse(primary.text).v, now)) ]_vars

\* C23 as it is written: whenever a backup exists, restoreFromBackup succeeds
\* and the primary key holds the data of the backup with the greatest millis
C23_RestoreWheneverBackedUp ==
    [][ (ops' = ops + 1 /\ last'.op = "restoreFromBackup" /\ backups # <<>>)
        => /\ last'.error = ""
           /\ primary' = Text(Stringify(Get(JSONParse(
                  backups[CHOOSE k \in DOMAIN backups : \A j \in DOMAIN backups : j <= k]).v,
                  "data"))) ]_vars

\* C23: restoreFromBackup never throws and adds and removes no backup; when
\* a backup exists and the store's reads and its write of the primary key
\* work, the result is a success and the primary key holds the data of the
\* backup with the greatest millis; when no backup exists or the store
\* throws, the result is no success and the store is as it was
C23_RestoreOverWorkingStore ==
    [][ (ops' = ops + 1 /\ last'.op = "restoreFromBackup")
        => /\ last'.outcome = "ok"
           /\ backups' = backups /\ savedAt' = savedAt /\ items' = items
           /\ IF backups # <<>> /\ ~recovery.env.get /\ ~recovery.env.setItems
              THEN /\ last'.error = ""
                   /\ primary' = Text(Stringify(Get(JSONParse(
                          backups[CHOOSE k \in DOMAIN backups :
                                     \A j \in DOMAIN backups : j <= k]).v, "data")))
              ELSE /\ last'.error # ""
                   /\ primary' = primary
                   /\ last'.writes = <<>> ]_vars

\* of several backups the newest was restored over another text, and its
\* data is not the data of the oldest
C23_Witness ==
    /\ last.op = "restoreFromBackup"
    /\ last.error = ""
    /\ Cardinality(DOMAIN backups) > 1
    /\ last.writes = <<Write("set", "items", 0)>>
    /\ primary = Text(Stringify(IntV(5)))
    /\ \E k \in DOMAIN backups :
          primary # Text(Stringify(Get(JSONParse(backups[k]).v, "data")))

\* C24: addedAt is fixed when the entry is created: at a later time, an
\* addItem that merges into an entry and an updateQuantity with a positive
\* quantity leave its addedAt, and the cart saved and loaded again has every
\* entry with the addedAt it had
C24_AddedAtIsFixed ==
    LET Later == [Start EXCEPT !.now = @ + 1, !.sessionOnly = FALSE]
        loaded == loadFromStorage(saveToStorage(Later, NoFailure), NoFailure)
    IN  /\ \A i \in 1..Len(items), q \in {1, MaxQuantity} :
              LET A == addItem(Later, IntV(items[i].key), IntV(q), NoFailure)
                  U == updateQuantity(Later, IntV(items[i].key), IntV(q), NoFailure)
              IN  /\ A.outcome = "ok" => A.items[i].addedAt = items[i].addedAt
                  /\ U.outcome = "ok" /\ U.items[i].quantity = q
                  /\ U.items[i].addedAt = items[i].addedAt
        /\ Len(loaded.items) = Len(items)
        /\ \A i \in 1..Len(items) :
              /\ loaded.items[i].key = items[i].key
              /\ loaded.items[i].addedAt = items[i].addedAt

\* an addItem has merged into an entry, which has the time of its creation
\* and can take one more
C24_Witness ==
    /\ last.op = "addItem"
    /\ last.outcome = "ok"
    /\ Len(last.events) > 0
    /\ \E i \in 1..Len(items) :
          /\ items[i].key = last.events[1].productId
          /\ items[i].quantity > last.events[1].quantity
          /\ items[i].quantity < MaxQuantity
          /\ items[i].addedAt = Iso(0)

\* C25: recoverData(key, 'cart') with nothing stored under the key returns a
\* success with the strategy 'fallback' and data with an empty list of
\* items, and writes nothing to the store
C25_MissingKeyFallsBack ==
    [][ (~recovery.done /\ recovery'.done /\ ~primary.present)
        => /\ recovery'.result.success
           /\ recovery'.result.strategy = "fallback"
           /\ Get(recovery'.result.data, "items").t = "arr"
           /\ Get(recovery'.result.data, "items").a = <<>>
           /\ ~recovery'.threw => recovery'.result.errors = <<>>
           /\ UNCHANGED <<primary, savedAt, backups>> ]_vars

\* recoverData has run over a store that works and has nothing under the key
C25_Witness ==
    /\ recovery.done
    /\ ~recovery.threw
    /\ ~primary.present
    /\ recovery.result.strategy = "fallback"
    /\ recovery.result.errors = <<>>

\* C26: with prices in whole cents, getCartTotal() is the sum, over the
\* products of the catalog, of the quantity in the cart times the price; an
\* entry whose product is not in the catalog adds nothing and is no error;
\* getCartSummary().total and .subtotal are the same amount
C26_TotalIsSumOfSubtotals ==
    LET owed[id \in 0..CatalogSize] ==
            IF id = 0 THEN 0 ELSE owed[id - 1] + QuantityOf(items, id) * Prices[id]
        gone == SetItem(items, CatalogSize + 1, CartItem(CatalogSize + 1, 2, Iso(now)))
    IN  /\ getCartTotal(items) = owed[CatalogSize]
        /\ getCartTotal(gone) = owed[CatalogSize]
        /\ getCartSummary(items).total = owed[CatalogSize]
        /\ getCartSummary(items).subtotal = owed[CatalogSize]
        /\ getCartSummary(gone).total = owed[CatalogSize]

\* a cart with an entry of more than one piece, whose total is more than
\* the price of its product
C26_Witness ==
    /\ items # <<>>
    /\ items[1].quantity > 1
    /\ getCartTotal(items) > Prices[items[1].productId]
    /\ last.op = "addItem"

\* C27: in every reachable state getCartCount() is the sum of the
\* quantities of the entries, and isEmpty() is true exactly when the map has
\* no entry
C27_CountAndEmptiness ==
    LET pieces[id \in 0..CatalogSize] ==
            IF id = 0 THEN 0 ELSE pieces[id - 1] + QuantityOf(items, id)
    IN  /\ getCartCount(items) = pieces[CatalogSize]
        /\ getCartSummary(items).itemCount = pieces[CatalogSize]
        /\ isEmpty(items) <=> items = <<>>
        /\ isEmpty(items) <=> \A id \in CatalogIds : ~Has(items, id)

\* a cart of two entries with more pieces than entries
C27_Witness ==
    /\ Len(items) = 2
    /\ getCartCount(items) > 2
    /\ ~isEmpty(items)

\* C28: when a load has returned in normal mode over a store that works,
\* the list of items stored under the primary key (none when the key is
\* absent) has the product ids and the quantities of the cart in memory
C28_StoreMirrorsCart ==
    (last.op = "loadFromStorage" /\ ~sessionOnly /\ recovery.env = NoFailure)
    => IF ~primary.present THEN items = <<>>
       ELSE LET stored == JSONParse(primary.text)
                list == Get(stored.v, "items")
            IN  /\ stored.ok
                /\ list.t = "arr"
                /\ Len(list.a) = Len(items)
                /\ \A i \in 1..Len(items) :
                      /\ Get(list.a[i], "productId") = IntV(items[i].key)
                      /\ Get(list.a[i], "quantity") = IntV(items[i].quantity)


\* C29: however the initialize() calls interleave at their awaits, the
\* initialization sequence registers the cart listener, the global event
\* handlers and the health-check timer at most once
C29_RegisteredOnce ==
    /\ Len(listeners) <= 1
    /\ app.handlers <= 1
    /\ app.timers <= 1

\* an initialize() call made after an earlier one has returned registers
\* nothing: without overlapping calls each registration happens once
C29_SequentialCallsRegisterOnce ==
    (\A c \in 1..Len(app.calls) : c > 1 => app.calls[c].at = "returned" /\ app.calls[c].next = 0)
        => C29_RegisteredOnce

\* C30: over any dependency Map, calculateInitializationOrder returns an
\* order that holds every declared module exactly once, each after all the
\* dependencies declared for it, when no module depends on itself through
\* any chain of dependencies; when one does, it throws the
\* circular-dependency error and no order is held
C30_OrderRespectsDependencies ==
    LET keys == app.dependencies.keys
        names == Range(keys)
        order == app.initializationOrder
        depsOf(name) == IF name \in DOMAIN app.dependencies.deps
                        THEN Range(app.dependencies.deps[name]) ELSE {}
        RECURSIVE reached(_, _)
        reached(from, steps) ==
            IF steps = 0 THEN from
            ELSE reached(from \cup UNION {depsOf(name) : name \in from}, steps - 1)
        cyclic == \E name \in names : name \in reached(depsOf(name), Len(keys))
        places(name) == {i \in 1..Len(order) : order[i] = name}
    IN  app.constructed =>
            IF cyclic
            THEN app.error = "Circular dependency detected" /\ order = <<>>
            ELSE /\ app.error = ""
                 /\ \A name \in names : Cardinality(places(name)) = 1
                 /\ \A name \in names : \A dep \in depsOf(name) :
                        \E i \in places(dep) : \A j \in places(name) : i < j

\* the order of the application's own seven modules has been computed
C30_Witness ==
    /\ app.constructed
    /\ app.dependencies = Dependencies
    /\ Len(app.initializationOrder) = Len(Dependencies.keys)
    /\ app.error = ""

\* a Map with a cycle of two modules has been given and refused
C30_CycleWitness ==
    /\ app.constructed
    /\ app.error # ""
    /\ \A name \in DOMAIN app.dependencies.deps :
          app.dependencies.deps[name] # <<name>> /\ Len(app.dependencies.deps[name]) <= 1

====
